---- MODULE Spec2Model ----
(***************************************************************************)
(* Model of the Agrofel field assistant: the three scripts that query the  *)
(* FAISS index and the hosted LLM (app.py, app_copia_original.py and       *)
(* 2_Testar_Base.py), together with the Streamlit session state and the    *)
(* display block that app.py and app_copia_original.py run on every rerun. *)
(*                                                                         *)
(* Texts are modelled at two granularities:                                *)
(*   - the query-expansion response and the search queries are sequences   *)
(*     of characters, because the code strips and splits them;             *)
(*   - recommendation texts are sequences of tokens, because the code only *)
(*     tests them for the sentinel substring and for product lines.        *)
(***************************************************************************)
EXTENDS Integers, Sequences, FiniteSets, TLC

\* ------------------------------------------------------------------ bounds
MaxRespLen == 3   \* longest query-expansion response, in characters
MaxHits == 2      \* most passages one search returns in the model (<= k)
MaxGenLen == 2    \* longest generated text, in tokens
MaxRuns == 2      \* requests per behaviour with deterministic services

\* ------------------------------------------------------- program constants
K_TRANSFORMACAO == 4   \* k of the searches of _buscar_e_gerar_recomendacao
K_AMPLA == 10          \* k of the broad search of agente_especialista_recomenda
K_DIAGNOSTICO == 5     \* k of the search of diagnosticar_busca
K_TECNICA == 5         \* k of the searches of buscar_resposta_especifica

None == "None"
NL == "\n"
SENTINELA == "NAO_ENCONTRADO"
LINHA_PRODUTO == "**Produto 1:** GLYPHOTAL TR\n"
MSG_ESCLARECER == <<"Por favor, descreva seu problema agricola.">>
MSG_ERRO_BASE == <<"Erro: A base de conhecimento nao esta carregada.">>

APP == "app.py"
COPIA == "app_copia_original.py"
DIAG == "2_Testar_Base.py"
Scripts == {APP, COPIA, DIAG}

Min(a, b) == IF a < b THEN a ELSE b
SeqsUpTo(S, n) == UNION {[1..m -> S] : m \in 0..n}

\* ------------------------------------------------------------ input domains
Chars == {"a", NL}
Utterances == {<<>>, <<"u">>}
Culturas == {None, "soja"}
\* 'inseto' is one of the vague category words the schema asks the model to
\* accept as a pest; 'lagarta' is a specific one.
Pragas == {None, "lagarta", "inseto"}
TermosGenericos == {"inseto", "doenca", "patogeno"}
\* The source label of a passage is the name of the file it came from: one
\* label coincides with the product name a recommendation may list, one does not.
Docs == {[page_content |-> "d1", source |-> "GLYPHOTAL TR"],
         [page_content |-> "d2", source |-> "s2"]}
GenTokens == {SENTINELA, LINHA_PRODUTO}
\* what the filtering model may hand back: passage texts, possibly none
FiltroTokens == {d.page_content : d \in Docs}
\* the question of the technical section: a frequent one, or the empty custom field
PerguntasTecnicas == {<<>>, <<"Qual o modo de acao do produto?">>}
\* what the model may answer to a technical question: nothing, or some text
TextosTecnicos == {<<>>, <<"resposta tecnica">>}
\* str(e) of an exception raised while loading the base or sending the email
TextosExcecao == {"[Errno 13] Permission denied", "(535, b'5.7.8 BadCredentials')"}

\* --------------------------------------------------------- Python semantics
\* Truthiness of an optional string: None and "" are falsy.
Falsy(x) == x = None \/ x = ""

IsSpace(c) == c \in {NL, " ", "\t"}

RECURSIVE lstrip(_)
lstrip(s) == IF s # <<>> /\ IsSpace(Head(s)) THEN lstrip(Tail(s)) ELSE s

RECURSIVE rstrip(_)
rstrip(s) ==
  IF s # <<>> /\ IsSpace(s[Len(s)]) THEN rstrip(SubSeq(s, 1, Len(s) - 1)) ELSE s

\* str.strip()
strip(s) == rstrip(lstrip(s))

\* str.split('\n'): always at least one piece; empty pieces are kept.
RECURSIVE split(_)
split(s) ==
  IF \A i \in DOMAIN s : s[i] # NL THEN <<s>>
  ELSE LET p == CHOOSE i \in DOMAIN s :
                  s[i] = NL /\ \A j \in 1..(i - 1) : s[j] # NL
       IN <<SubSeq(s, 1, p - 1)>> \o split(SubSeq(s, p + 1, Len(s)))

\* `SENTINELA in texto` on token sequences
\* (variant: equality with the sentinel instead of containment)
ContemSentinelaIgual(texto) == texto = <<SENTINELA>>
ContemSentinela(texto) == \E i \in DOMAIN texto : texto[i] = SENTINELA

\* re.findall(r"\*\*Produto \d+:\*\* (.*?)\n", recomendacao): the names of the
\* product lines, in order.
RECURSIVE extrair_nomes_produtos(_)
extrair_nomes_produtos(recomendacao) ==
  IF recomendacao = <<>> THEN <<>>
  ELSE (IF Head(recomendacao) = LINHA_PRODUTO THEN <<"GLYPHOTAL TR">> ELSE <<>>)
       \o extrair_nomes_produtos(Tail(recomendacao))

\* A Python dict as the sequence of its items in insertion order.
\* (variant: re-inserting a key moves it to the end)
dict_put_move(d, k, v) ==
  SelectSeq(d, LAMBDA it : it.key # k) \o <<[key |-> k, value |-> v]>>
dict_put(d, k, v) ==
  IF \E i \in DOMAIN d : d[i].key = k
  THEN [i \in DOMAIN d |-> IF d[i].key = k THEN [key |-> k, value |-> v] ELSE d[i]]
  ELSE Append(d, [key |-> k, value |-> v])

\* {doc.page_content: doc for doc in todos_chunks}
RECURSIVE dict_de_chunks(_)
dict_de_chunks(chunks) ==
  IF chunks = <<>> THEN <<>>
  ELSE LET ultimo == chunks[Len(chunks)]
       IN dict_put(dict_de_chunks(SubSeq(chunks, 1, Len(chunks) - 1)),
                   ultimo.page_content, ultimo)

\* unique_chunks = {...}.values()
unique_chunks(chunks) ==
  LET d == dict_de_chunks(chunks) IN [i \in DOMAIN d |-> d[i].value]

\* contexto_final: the page contents of the unique chunks, joined in order
contexto_final(chunks) ==
  LET u == unique_chunks(chunks) IN [i \in DOMAIN u |-> u[i].page_content]

\* cadeia_transformacao.invoke(...).strip().split('\n')
consultas_geradas(resposta) == split(strip(resposta))

\* ------------------------------------------------------------------ router
AvisoNenhum == [tipo |-> "nenhum", termo |-> None]
AvisoFallback == [tipo |-> "fallback", termo |-> None]
AvisoPraga(praga) == [tipo |-> "praga", termo |-> praga]
AvisoCultura(cultura) == [tipo |-> "cultura", termo |-> cultura]
AvisoGeral == [tipo |-> "geral", termo |-> None]

\* Lines 162-166: no tool call came back, search with the raw question.
\* (variant: ask for clarification instead)
rota_sem_ferramenta_esclarece == [acao |-> "esclarecer", aviso |-> AvisoNenhum]
rota_sem_ferramenta == [acao |-> "buscar", aviso |-> AvisoFallback]

\* ETAPA 2 of obter_resposta_assistente: the routing decision and the note.
\* (variant: a vague pest word also ends in the clarification)
roteador_generico(cultura, praga, termo_produto) ==
  IF (Falsy(praga) /\ Falsy(cultura) /\ ~termo_produto) \/ praga \in TermosGenericos
  THEN [acao |-> "esclarecer", aviso |-> AvisoNenhum]
  ELSE [acao |-> "buscar", aviso |-> AvisoNenhum]
\* (variant: Caso 1 with the product-keyword test inverted)
roteador_caso1_invertido(cultura, praga, termo_produto) ==
  IF Falsy(praga) /\ Falsy(cultura) /\ termo_produto
  THEN [acao |-> "esclarecer", aviso |-> AvisoNenhum]
  ELSE [acao |-> "buscar", aviso |-> AvisoNenhum]
\* (variant: the note is set whether or not a product keyword was found)
roteador_aviso_sempre(cultura, praga, termo_produto) ==
  IF Falsy(praga) /\ Falsy(cultura) /\ ~termo_produto
  THEN [acao |-> "esclarecer", aviso |-> AvisoNenhum]
  ELSE [acao |-> "buscar",
        aviso |-> IF ~Falsy(praga) /\ Falsy(cultura) THEN AvisoPraga(praga)
                  ELSE IF ~Falsy(cultura) /\ Falsy(praga) THEN AvisoCultura(cultura)
                  ELSE IF Falsy(praga) /\ Falsy(cultura) THEN AvisoGeral
                  ELSE AvisoNenhum]
roteador(cultura, praga, termo_produto) ==
  IF Falsy(praga) /\ Falsy(cultura) /\ ~termo_produto
  THEN [acao |-> "esclarecer", aviso |-> AvisoNenhum]
  ELSE [acao |-> "buscar",
        aviso |-> IF ~termo_produto THEN AvisoNenhum
                  ELSE IF ~Falsy(praga) /\ Falsy(cultura) THEN AvisoPraga(praga)
                  ELSE IF ~Falsy(cultura) /\ Falsy(praga) THEN AvisoCultura(cultura)
                  ELSE IF Falsy(praga) /\ Falsy(cultura) THEN AvisoGeral
                  ELSE AvisoNenhum]

\* ---------------------------------------------------------------- services
\* What the hosted services may answer. ok = FALSE is a call that raises.
ArgsAnalise == [cultura : Culturas, praga : Pragas, termo_produto : BOOLEAN]
SemArgs == [cultura |-> None, praga |-> None, termo_produto |-> FALSE]
RespExtracao ==
  {[ok |-> FALSE, tool_calls |-> <<>>]}
    \cup {[ok |-> TRUE, tool_calls |-> tc] : tc \in SeqsUpTo(ArgsAnalise, 1)}
RespExpansao ==
  {[ok |-> FALSE, texto |-> <<>>]}
    \cup {[ok |-> TRUE, texto |-> t] : t \in SeqsUpTo(Chars, MaxRespLen)}
RespGeracao ==
  {[ok |-> FALSE, texto |-> <<>>]}
    \cup {[ok |-> TRUE, texto |-> t] : t \in SeqsUpTo(GenTokens, MaxGenLen)}
RespFiltragem ==
  {[ok |-> FALSE, texto |-> <<>>]}
    \cup {[ok |-> TRUE, texto |-> t] : t \in SeqsUpTo(FiltroTokens, MaxGenLen)}
RespBusca(k) ==
  {[ok |-> FALSE, docs |-> <<>>]}
    \cup {[ok |-> TRUE, docs |-> d] : d \in SeqsUpTo(Docs, Min(MaxHits, k))}

\* db.similarity_search(query, k=5, filter={"source": produto}): only passages
\* whose source label equals the filter value come back.
RespBuscaFiltrada(k, filtro) ==
  {r \in RespBusca(k) : \A i \in DOMAIN r.docs : r.docs[i].source = filtro}
RespTecnica ==
  {[ok |-> FALSE, texto |-> <<>>]}
    \cup {[ok |-> TRUE, texto |-> t] : t \in TextosTecnicos}

SemPrompt == [aviso |-> AvisoNenhum, pergunta |-> <<>>, contexto |-> <<>>]
Chamada(svc, texto, k, prompt) ==
  [svc |-> svc, texto |-> texto, k |-> k, prompt |-> prompt]

\* ------------------------------------------------------------------- state
VARIABLES
  script,    \* which of the three scripts this behaviour runs
  pc,        \* where the running script is
  db, llm,   \* what carregar_base_conhecimento returned (cached)
  ss,        \* st.session_state
  tela,      \* what the latest script run rendered, and the email it sent
  loc,       \* the locals of the request being handled (kept after it returns)
  chamadas,  \* the service calls of the current request, in order
  resultado, \* how the latest request ended
  stub,      \* answers already given by the deterministic stub services
  hist,      \* the completed requests of the deterministic-stub experiment
  runs       \* requests submitted in the deterministic-stub experiment

vars == <<script, pc, db, llm, ss, tela, loc, chamadas, resultado, stub, hist, runs>>

SessaoInicial ==
  [pergunta |-> <<>>, recomendacao |-> <<>>, produtos |-> <<>>,
   resposta_especifica |-> <<>>, produto_selecionado |-> None,
   pergunta_especifica |-> <<>>]
TelaVazia ==
  [principal |-> "nada", texto |-> <<>>, confirmar |-> FALSE, erro |-> "nenhum",
   humano |-> FALSE, mensagem |-> <<>>,
   email |-> "nenhum", email_pergunta |-> <<>>, email_recomendacao |-> <<>>]
LocVazio ==
  [query |-> <<>>, sem_ferramenta |-> FALSE, tem_analise |-> FALSE,
   analise |-> SemArgs, aviso |-> AvisoNenhum,
   expandiu |-> FALSE, resposta |-> <<>>, consultas |-> <<>>, i |-> 0,
   todos_chunks |-> <<>>, achou |-> FALSE, prompt |-> SemPrompt]
SemResultado == [tipo |-> "nenhum", valor |-> <<>>]
StubVazio == [extracao |-> {}, expansao |-> {}, busca |-> {}, geracao |-> {}]

Init ==
  /\ script \in Scripts
  /\ pc = "inicio"
  /\ db = None /\ llm = None
  /\ ss = SessaoInicial
  /\ tela = TelaVazia
  /\ loc = LocVazio
  /\ chamadas = <<>>
  /\ resultado = SemResultado
  /\ stub = StubVazio
  /\ hist = <<>>
  /\ runs = 0

\* carregar_base_conhecimento(): both handles or neither.
\* (variant: a failure while loading leaves the index handle behind)
carregar_so_db(existe, falha) ==
  IF ~existe THEN <<None, None>> ELSE IF falha THEN <<"db", None>> ELSE <<"db", "llm">>
carregar_base_conhecimento(existe, falha) ==
  IF ~existe \/ falha THEN <<None, None>> ELSE <<"db", "llm">>

\* What carregar_base_conhecimento() shows with st.error: a fixed text when
\* the index folder is missing, the exception's text appended when loading
\* raised `e`.
mensagem_de_carga(existe, falha, e) ==
  IF ~existe THEN <<"A base de conhecimento nao foi encontrada.">>
  ELSE IF falha THEN <<"Ocorreu um erro ao carregar a base de conhecimento: ", e>>
  ELSE <<>>

\* What enviar_email_confirmacao shows: st.success, or st.error with the text
\* of the exception `e`.
mensagem_de_email(enviado, e) ==
  IF enviado THEN <<"Pedido confirmado! Seu consultor Agrofel foi notificado por email.">>
  ELSE <<"Ocorreu um erro ao enviar o email: ", e>>

\* The display block both UIs run at the end of every script run.
\* (variant: the sentinel is recognised only as the whole text)
exibir_por_igualdade(recomendacao) ==
  IF recomendacao = <<>> THEN TelaVazia
  ELSE IF ContemSentinelaIgual(recomendacao)
       THEN [TelaVazia EXCEPT !.principal = "nao_encontrado"]
       ELSE [TelaVazia EXCEPT !.principal = "recomendacao",
                              !.texto = recomendacao, !.confirmar = TRUE]
exibir(recomendacao) ==
  IF recomendacao = <<>> THEN TelaVazia
  ELSE IF ContemSentinela(recomendacao)
       THEN [TelaVazia EXCEPT !.principal = "nao_encontrado"]
       ELSE [TelaVazia EXCEPT !.principal = "recomendacao",
                              !.texto = recomendacao, !.confirmar = TRUE]

\* st.session_state.produtos after a request returned
produtos_de(recomendacao) ==
  IF ~ContemSentinela(recomendacao) THEN extrair_nomes_produtos(recomendacao) ELSE <<>>

\* `if db is not None` of the submit block
base_disponivel(d) == d # None

\* ------------------------------------------------------- stub bookkeeping
Respostas(det, memo, entrada, todas) ==
  LET ja == {p[2] : p \in {m \in memo : m[1] = entrada}}
  IN IF det /\ ja # {} THEN ja ELSE todas
Lembrar(det, campo, entrada, r) ==
  IF det THEN [stub EXCEPT ![campo] = @ \cup {<<entrada, r>>}] ELSE stub

\* ----------------------------------------------------- how a request ends
\* When the orchestrator returns, the retrieved chunks go out of scope; the
\* model keeps the rest of the locals to state properties of the request.
Esquecer(l) == [l EXCEPT !.todos_chunks = <<>>]

\* The orchestrator returned `valor`: the submit block stores it and the
\* display block renders it.
Retornar(det, valor, l) ==
  /\ loc' = Esquecer(l)
  /\ ss' = [ss EXCEPT !.recomendacao = valor,
                      !.produtos = IF script = APP THEN produtos_de(valor) ELSE @]
  /\ tela' = exibir(valor)
  /\ resultado' = [tipo |-> "retorno", valor |-> valor]
  /\ pc' = "ocioso"
  /\ hist' = IF det
             THEN Append(hist, [query |-> loc.query, tipo |-> "retorno",
                                valor |-> valor, chamadas |-> chamadas'])
             ELSE hist

\* A service call raised: nothing catches it, the script run ends there.
Excecao(det, l) ==
  /\ loc' = Esquecer(l)
  /\ ss' = ss
  /\ tela' = [TelaVazia EXCEPT !.erro = "excecao"]
  /\ resultado' = [tipo |-> "excecao", valor |-> <<>>]
  /\ pc' = "ocioso"
  /\ hist' = IF det
             THEN Append(hist, [query |-> loc.query, tipo |-> "excecao",
                                valor |-> <<>>, chamadas |-> chamadas'])
             ELSE hist

\* ------------------------------------------------------------ app.py: UI
NaoMexeNoExperimento == UNCHANGED <<stub, hist, runs>>

\* Script start of the two Streamlit apps: load the base, empty session.
Carregar ==
  /\ pc = "inicio" /\ script \in {APP, COPIA}
  /\ \E existe \in BOOLEAN, falha \in BOOLEAN, e \in TextosExcecao :
       /\ db' = carregar_base_conhecimento(existe, falha)[1]
       /\ llm' = carregar_base_conhecimento(existe, falha)[2]
       /\ tela' = [TelaVazia EXCEPT
                     !.erro = IF ~existe THEN "base_nao_encontrada"
                              ELSE IF falha THEN "erro_ao_carregar" ELSE "nenhum",
                     !.mensagem = mensagem_de_carga(existe, falha, e)]
  /\ pc' = "ocioso"
  /\ UNCHANGED <<script, ss, loc, chamadas, resultado>>
  /\ NaoMexeNoExperimento

\* "Buscar Sugestoes" pressed with `q` in the text area (app.py 249-258).
Submeter(q, det) ==
  /\ pc = "ocioso" /\ script = APP
  /\ det => /\ runs < MaxRuns
            /\ q # <<>>
            /\ hist # <<>> => q = hist[1].query
  /\ runs' = IF det THEN runs + 1 ELSE runs
  /\ UNCHANGED <<script, db, llm, stub>>
  /\ IF q = <<>>
     THEN \* `submitted and pergunta_usuario` is false: only the display block
          /\ tela' = exibir(ss.recomendacao)
          /\ UNCHANGED <<pc, ss, loc, chamadas, resultado, hist>>
     ELSE IF ~base_disponivel(db)
     THEN /\ tela' = [exibir(ss.recomendacao) EXCEPT
                        !.erro = "base_nao_carregada",
                        !.mensagem = <<"A base de conhecimento nao pode ser carregada.">>]
          /\ resultado' = [tipo |-> "indisponivel", valor |-> <<>>]
          /\ chamadas' = <<>>
          /\ loc' = [LocVazio EXCEPT !.query = q]
          /\ UNCHANGED <<pc, ss, hist>>
     ELSE IF llm = None
     THEN \* llm.bind_tools on None: AttributeError, uncaught
          /\ chamadas' = <<>>
          /\ loc' = [LocVazio EXCEPT !.query = q]
          /\ ss' = [ss EXCEPT !.pergunta = q]
          /\ tela' = [TelaVazia EXCEPT !.erro = "excecao"]
          /\ resultado' = [tipo |-> "excecao", valor |-> <<>>]
          /\ UNCHANGED <<pc, hist>>
     ELSE /\ ss' = [ss EXCEPT !.pergunta = q]
          /\ loc' = [LocVazio EXCEPT !.query = q]
          /\ chamadas' = <<>>
          /\ resultado' = SemResultado
          /\ tela' = [TelaVazia EXCEPT !.principal = "spinner"]
          /\ pc' = "extracao"
          /\ UNCHANGED hist

\* ETAPA 1 and 2 of obter_resposta_assistente: the extraction call, then the
\* routing decision on what it returned.
Extrair(det) ==
  /\ pc = "extracao"
  /\ UNCHANGED <<script, db, llm, runs>>
  /\ \E r \in Respostas(det, stub.extracao, loc.query, RespExtracao) :
       /\ stub' = Lembrar(det, "extracao", loc.query, r)
       /\ chamadas' = Append(chamadas, Chamada("extracao", loc.query, 0, SemPrompt))
       /\ IF ~r.ok
          THEN Excecao(det, loc)
          ELSE LET falhou == r.tool_calls = <<>>
                   a == IF falhou THEN SemArgs ELSE r.tool_calls[1]
                   rota == IF falhou THEN rota_sem_ferramenta
                           ELSE roteador(a.cultura, a.praga, a.termo_produto)
                   l == [loc EXCEPT !.sem_ferramenta = falhou, !.tem_analise = ~falhou,
                                    !.analise = a, !.aviso = rota.aviso]
               IN IF rota.acao = "esclarecer"
                  THEN Retornar(det, MSG_ESCLARECER, l)
                  ELSE /\ loc' = l
                       /\ pc' = "expansao"
                       /\ UNCHANGED <<ss, tela, resultado, hist>>

\* _buscar_e_gerar_recomendacao, line 65: the query-transformation call.
Expandir(det) ==
  /\ pc = "expansao"
  /\ UNCHANGED <<script, db, llm, runs>>
  /\ \E r \in Respostas(det, stub.expansao, loc.query, RespExpansao) :
       /\ stub' = Lembrar(det, "expansao", loc.query, r)
       /\ chamadas' = Append(chamadas, Chamada("expansao", loc.query, 0, SemPrompt))
       /\ IF ~r.ok
          THEN Excecao(det, loc)
          ELSE /\ loc' = [loc EXCEPT !.expandiu = TRUE, !.resposta = r.texto,
                                     !.consultas = consultas_geradas(r.texto),
                                     !.i = 1]
               /\ pc' = "busca"
               /\ UNCHANGED <<ss, tela, resultado, hist>>

\* `if not unique_chunks` (line 72)
\* (variant: the empty check is missing)
nada_encontrado_nunca(unicos) == FALSE
nada_encontrado(unicos) == unicos = <<>>

\* The prompt of the final generation (lines 74-107).
\* (variant: the stored recommendation leaks into the prompt)
prompt_com_historico(aviso_contexto, query, chunks) ==
  [aviso |-> aviso_contexto, pergunta |-> query,
   contexto |-> contexto_final(chunks) \o ss.recomendacao]
prompt_geracao_final(aviso_contexto, query, chunks) ==
  [aviso |-> aviso_contexto, pergunta |-> query, contexto |-> contexto_final(chunks)]

\* `for q in consultas_geradas` (lines 67-69): is there a query left to search?
\* (variant: the loop stops after the first query)
ha_mais_consultas_nunca(i, consultas) == FALSE
ha_mais_consultas(i, consultas) == i < Len(consultas)

\* Lines 68-72: one similarity search per generated query; after the last one
\* the chunks are de-duplicated and an empty set ends the request.
Buscar(det) ==
  /\ pc = "busca" /\ script = APP
  /\ UNCHANGED <<script, db, llm, runs>>
  /\ LET consulta == loc.consultas[loc.i] IN
     \E r \in Respostas(det, stub.busca, consulta, RespBusca(K_TRANSFORMACAO)) :
       /\ stub' = Lembrar(det, "busca", consulta, r)
       /\ chamadas' =
            Append(chamadas, Chamada("busca", consulta, K_TRANSFORMACAO, SemPrompt))
       /\ IF ~r.ok
          THEN Excecao(det, loc)
          ELSE LET todos == loc.todos_chunks \o r.docs
                   l == [loc EXCEPT !.todos_chunks = todos, !.achou = (todos # <<>>)]
               IN
               IF ha_mais_consultas(loc.i, loc.consultas)
               THEN /\ loc' = [l EXCEPT !.i = @ + 1]
                    /\ UNCHANGED <<pc, ss, tela, resultado, hist>>
               ELSE IF nada_encontrado(unique_chunks(todos))
               THEN Retornar(det, <<SENTINELA>>, l)
               ELSE /\ loc' = [l EXCEPT
                                 !.prompt = prompt_geracao_final(loc.aviso, loc.query, todos)]
                    /\ pc' = "geracao"
                    /\ UNCHANGED <<ss, tela, resultado, hist>>

\* Lines 109-110: the final generation call; its text is returned as is.
Gerar(det) ==
  /\ pc = "geracao" /\ script = APP
  /\ UNCHANGED <<script, db, llm, runs>>
  /\ \E r \in Respostas(det, stub.geracao, loc.prompt, RespGeracao) :
       /\ stub' = Lembrar(det, "geracao", loc.prompt, r)
       /\ chamadas' = Append(chamadas, Chamada("geracao", <<>>, 0, loc.prompt))
       /\ IF ~r.ok THEN Excecao(det, loc) ELSE Retornar(det, r.texto, loc)

\* Line 280: what the stored recommendation is after the confirm handler ran,
\* the email sent or not.
\* (variant: the recommendation is kept when the email could not be sent)
recomendacao_mantida_sem_envio(enviado, recomendacao) ==
  IF enviado THEN <<>> ELSE recomendacao
recomendacao_apos_confirmar(enviado, recomendacao) == <<>>

\* "Confirmar Pedido" pressed (lines 278-280): the button runs only when the
\* display block reaches it in this rerun.
Confirmar ==
  /\ pc = "ocioso" /\ script = APP
  /\ tela.confirmar
  /\ exibir(ss.recomendacao).confirmar
  /\ \E enviado \in BOOLEAN, e \in TextosExcecao :
       /\ tela' = [exibir(ss.recomendacao) EXCEPT
                     !.email = IF enviado THEN "enviado" ELSE "erro",
                     !.mensagem = mensagem_de_email(enviado, e),
                     !.email_pergunta = ss.pergunta,
                     !.email_recomendacao = ss.recomendacao]
       /\ ss' = [ss EXCEPT !.recomendacao =
                             recomendacao_apos_confirmar(enviado, ss.recomendacao)]
  /\ UNCHANGED <<script, pc, db, llm, loc, chamadas, resultado>>
  /\ NaoMexeNoExperimento

\* Any other interaction: the script reruns and only the display block acts.
Rerun ==
  /\ pc = "ocioso" /\ script \in {APP, COPIA}
  /\ tela' = exibir(ss.recomendacao)
  /\ UNCHANGED <<script, pc, db, llm, ss, loc, chamadas, resultado>>
  /\ NaoMexeNoExperimento

\* ------------------------------------------------- app_copia_original.py
\* The guard at the top of agente_especialista_recomenda (lines 53-54).
agente_indisponivel(d, l) == d = None \/ l = None

\* "Buscar Sugestoes" of app_copia_original.py (lines 149-158).
SubmeterCopia(q) ==
  /\ pc = "ocioso" /\ script = COPIA
  /\ UNCHANGED <<script, db, llm>>
  /\ NaoMexeNoExperimento
  /\ IF q = <<>>
     THEN /\ tela' = exibir(ss.recomendacao)
          /\ UNCHANGED <<pc, ss, loc, chamadas, resultado>>
     ELSE IF ~base_disponivel(db)
     THEN /\ tela' = [exibir(ss.recomendacao) EXCEPT
                        !.erro = "base_nao_carregada",
                        !.mensagem = <<"A base de conhecimento nao pode ser carregada.">>]
          /\ resultado' = [tipo |-> "indisponivel", valor |-> <<>>]
          /\ chamadas' = <<>>
          /\ loc' = [LocVazio EXCEPT !.query = q]
          /\ UNCHANGED <<pc, ss>>
     ELSE IF agente_indisponivel(db, llm)
     THEN /\ chamadas' = <<>>
          /\ loc' = [LocVazio EXCEPT !.query = q]
          /\ ss' = [ss EXCEPT !.pergunta = q, !.recomendacao = MSG_ERRO_BASE]
          /\ tela' = exibir(MSG_ERRO_BASE)
          /\ resultado' = [tipo |-> "retorno", valor |-> MSG_ERRO_BASE]
          /\ UNCHANGED pc
     ELSE /\ ss' = [ss EXCEPT !.pergunta = q]
          /\ loc' = [LocVazio EXCEPT !.query = q]
          /\ chamadas' = <<>>
          /\ resultado' = SemResultado
          /\ tela' = [TelaVazia EXCEPT !.principal = "spinner"]
          /\ pc' = "busca_ampla"

\* ETAPA 1 (lines 58-61): one broad search; nothing found ends the request.
BuscaAmpla ==
  /\ pc = "busca_ampla"
  /\ UNCHANGED <<script, db, llm>>
  /\ NaoMexeNoExperimento
  /\ \E r \in RespBusca(K_AMPLA) :
       /\ chamadas' = Append(chamadas, Chamada("busca", loc.query, K_AMPLA, SemPrompt))
       /\ IF ~r.ok
          THEN Excecao(FALSE, loc)
          ELSE IF r.docs = <<>>
          THEN Retornar(FALSE, <<SENTINELA>>, loc)
          ELSE /\ loc' = [loc EXCEPT
                            !.todos_chunks = r.docs, !.achou = TRUE,
                            !.prompt = [aviso |-> AvisoNenhum, pergunta |-> loc.query,
                                        contexto |-> [i \in DOMAIN r.docs |->
                                                        r.docs[i].page_content]]]
               /\ pc' = "filtragem"
               /\ UNCHANGED <<ss, tela, resultado>>

\* ETAPA 2 (lines 65-81): the filtering model returns the context to use.
Filtrar ==
  /\ pc = "filtragem"
  /\ UNCHANGED <<script, db, llm>>
  /\ NaoMexeNoExperimento
  /\ \E r \in RespFiltragem :
       /\ chamadas' = Append(chamadas, Chamada("filtragem", <<>>, 0, loc.prompt))
       /\ IF ~r.ok
          THEN Excecao(FALSE, loc)
          ELSE /\ loc' = [loc EXCEPT !.prompt = [aviso |-> AvisoNenhum,
                                                 pergunta |-> loc.query,
                                                 contexto |-> r.texto]]
               /\ pc' = "geracao"
               /\ UNCHANGED <<ss, tela, resultado>>

\* ETAPA 3 (lines 85-112): final generation on the filtered context.
GerarCopia ==
  /\ pc = "geracao" /\ script = COPIA
  /\ UNCHANGED <<script, db, llm>>
  /\ NaoMexeNoExperimento
  /\ \E r \in RespGeracao :
       /\ chamadas' = Append(chamadas, Chamada("geracao", <<>>, 0, loc.prompt))
       /\ IF ~r.ok THEN Excecao(FALSE, loc) ELSE Retornar(FALSE, r.texto, loc)

\* "Confirmar Pedido" of app_copia_original.py (lines 180-184).
ConfirmarCopia ==
  /\ pc = "ocioso" /\ script = COPIA
  /\ tela.confirmar
  /\ exibir(ss.recomendacao).confirmar
  /\ tela' = [exibir(ss.recomendacao) EXCEPT
                !.email = "notificado",
                !.email_pergunta = ss.pergunta,
                !.email_recomendacao = ss.recomendacao]
  /\ ss' = [ss EXCEPT !.recomendacao = <<>>]
  /\ UNCHANGED <<script, pc, db, llm, loc, chamadas, resultado>>
  /\ NaoMexeNoExperimento

\* The two hand-off buttons (lines 165-168 and 187-190).
EncaminharHumano ==
  /\ pc = "ocioso" /\ script = COPIA
  /\ tela.principal \in {"nao_encontrado", "recomendacao"}
  /\ ss.recomendacao # <<>>
  /\ tela' = [exibir(ss.recomendacao) EXCEPT !.humano = TRUE]
  /\ ss' = [ss EXCEPT !.recomendacao = <<>>]
  /\ UNCHANGED <<script, pc, db, llm, loc, chamadas, resultado>>
  /\ NaoMexeNoExperimento

\* ------------------------------------------------------- 2_Testar_Base.py
\* diagnosticar_busca, lines 28-39: load the base and the model or give up.
DiagCarregar ==
  /\ pc = "inicio" /\ script = DIAG
  /\ UNCHANGED <<script, ss, chamadas>>
  /\ NaoMexeNoExperimento
  /\ \E q \in Utterances \ {<<>>}, existe \in BOOLEAN, falha \in BOOLEAN :
       /\ loc' = [LocVazio EXCEPT !.query = q]
       /\ IF ~existe \/ falha
          THEN /\ pc' = "fim"
               /\ tela' = [TelaVazia EXCEPT
                             !.erro = IF ~existe THEN "base_nao_encontrada"
                                      ELSE "erro_ao_carregar"]
               /\ resultado' = [tipo |-> "retorno_none", valor |-> <<>>]
               /\ UNCHANGED <<db, llm>>
          ELSE /\ db' = "db" /\ llm' = "llm"
               /\ pc' = "busca_diag"
               /\ UNCHANGED <<tela, resultado>>

\* Lines 44-59: the similarity search; no document ends the diagnosis.
DiagBuscar ==
  /\ pc = "busca_diag"
  /\ UNCHANGED <<script, db, llm, ss>>
  /\ NaoMexeNoExperimento
  /\ \E r \in RespBusca(K_DIAGNOSTICO) :
       /\ chamadas' = Append(chamadas, Chamada("busca", loc.query, K_DIAGNOSTICO, SemPrompt))
       /\ IF ~r.ok
          THEN /\ pc' = "fim"
               /\ tela' = [TelaVazia EXCEPT !.erro = "excecao"]
               /\ resultado' = [tipo |-> "excecao", valor |-> <<>>]
               /\ UNCHANGED loc
          ELSE IF r.docs = <<>>
          THEN /\ pc' = "fim"
               /\ tela' = [TelaVazia EXCEPT !.principal = "nenhum_documento"]
               /\ resultado' = [tipo |-> "retorno_none", valor |-> <<>>]
               /\ UNCHANGED loc
          ELSE /\ loc' = [loc EXCEPT
                            !.todos_chunks = r.docs, !.achou = TRUE,
                            !.prompt = [aviso |-> AvisoNenhum, pergunta |-> loc.query,
                                        contexto |-> [i \in DOMAIN r.docs |->
                                                        r.docs[i].page_content]]]
               /\ pc' = "geracao_diag"
               /\ UNCHANGED <<tela, resultado>>

\* Lines 67-96: the generation call; its text is printed, nothing is returned.
DiagGerar ==
  /\ pc = "geracao_diag"
  /\ loc' = Esquecer(loc)
  /\ UNCHANGED <<script, db, llm, ss>>
  /\ NaoMexeNoExperimento
  /\ \E r \in RespGeracao :
       /\ chamadas' = Append(chamadas, Chamada("geracao", <<>>, 0, loc.prompt))
       /\ pc' = "fim"
       /\ IF ~r.ok
          THEN /\ tela' = [TelaVazia EXCEPT !.erro = "excecao"]
               /\ resultado' = [tipo |-> "excecao", valor |-> <<>>]
          ELSE /\ tela' = [TelaVazia EXCEPT !.principal = "resposta_final",
                                            !.texto = r.texto]
               /\ resultado' = [tipo |-> "retorno_none", valor |-> <<>>]

\* ------------------------------------ app.py: technical follow-up section
\* `if not docs` (line 121): the filtered search found nothing
\* (variant: the unfiltered search is always made)
sem_docs_sempre(docs) == TRUE
sem_docs(docs) == docs = <<>>

\* The prompt of buscar_resposta_especifica (lines 125-149): product and
\* question, and the contents of the passages found.
prompt_tecnico(query, docs) ==
  [aviso |-> AvisoNenhum, pergunta |-> query,
   contexto |-> [i \in DOMAIN docs |-> docs[i].page_content]]

\* "Obter Resposta Tecnica" pressed (lines 322-334) with product number `n` of
\* the selector and question `p`; the section exists only under a rendered
\* recommendation.
PerguntarTecnica(n, p) ==
  /\ pc = "ocioso" /\ script = APP
  /\ tela.confirmar
  /\ exibir(ss.recomendacao).confirmar
  /\ n \in DOMAIN ss.produtos \/ (ss.produtos = <<>> /\ n = 0)
  /\ UNCHANGED <<script, db, llm>>
  /\ NaoMexeNoExperimento
  /\ LET produto_selecionado == IF n = 0 THEN None ELSE ss.produtos[n] IN
     IF Falsy(produto_selecionado) \/ p = <<>>
     THEN /\ tela' = [exibir(ss.recomendacao) EXCEPT !.erro = "selecione_um_produto"]
          /\ UNCHANGED <<pc, ss, loc, chamadas, resultado>>
     ELSE /\ ss' = [ss EXCEPT !.produto_selecionado = produto_selecionado,
                              !.pergunta_especifica = p]
          /\ loc' = [LocVazio EXCEPT !.query = <<produto_selecionado>> \o p]
          /\ chamadas' = <<>>
          /\ resultado' = SemResultado
          /\ tela' = [exibir(ss.recomendacao) EXCEPT !.principal = "spinner"]
          /\ pc' = "busca_filtrada"

\* Line 120: the search restricted to the product's source label.
BuscarFiltrada ==
  /\ pc = "busca_filtrada"
  /\ UNCHANGED <<script, db, llm>>
  /\ NaoMexeNoExperimento
  /\ \E r \in RespBuscaFiltrada(K_TECNICA, ss.produto_selecionado) :
       /\ chamadas' =
            Append(chamadas, Chamada("busca_filtrada", loc.query, K_TECNICA, SemPrompt))
       /\ IF ~r.ok
          THEN Excecao(FALSE, loc)
          ELSE IF sem_docs(r.docs)
          THEN /\ loc' = [loc EXCEPT !.todos_chunks = r.docs]
               /\ pc' = "busca_geral"
               /\ UNCHANGED <<ss, tela, resultado, hist>>
          ELSE /\ loc' = [loc EXCEPT !.todos_chunks = r.docs, !.achou = TRUE,
                                     !.prompt = prompt_tecnico(loc.query, r.docs)]
               /\ pc' = "geracao_tecnica"
               /\ UNCHANGED <<ss, tela, resultado, hist>>

\* Line 123: the fallback search without the filter.
BuscarGeral ==
  /\ pc = "busca_geral"
  /\ UNCHANGED <<script, db, llm>>
  /\ NaoMexeNoExperimento
  /\ \E r \in RespBusca(K_TECNICA) :
       /\ chamadas' = Append(chamadas, Chamada("busca", loc.query, K_TECNICA, SemPrompt))
       /\ IF ~r.ok
          THEN Excecao(FALSE, loc)
          ELSE /\ loc' = [loc EXCEPT !.todos_chunks = r.docs, !.achou = (r.docs # <<>>),
                                     !.prompt = prompt_tecnico(loc.query, r.docs)]
               /\ pc' = "geracao_tecnica"
               /\ UNCHANGED <<ss, tela, resultado, hist>>

\* Lines 150-151 and 326-331: the generation call; its text is stored as the
\* technical answer.
GerarTecnica ==
  /\ pc = "geracao_tecnica"
  /\ UNCHANGED <<script, db, llm>>
  /\ NaoMexeNoExperimento
  /\ \E r \in RespTecnica :
       /\ chamadas' = Append(chamadas, Chamada("geracao_tecnica", <<>>, 0, loc.prompt))
       /\ IF ~r.ok
          THEN Excecao(FALSE, loc)
          ELSE /\ loc' = Esquecer(loc)
               /\ ss' = [ss EXCEPT !.resposta_especifica = r.texto]
               /\ tela' = exibir(ss.recomendacao)
               /\ resultado' = [tipo |-> "retorno_tecnico", valor |-> r.texto]
               /\ pc' = "ocioso"

\* "Fazer outra pergunta sobre este produto" (lines 343-346).
OutraPergunta ==
  /\ pc = "ocioso" /\ script = APP
  /\ tela.confirmar
  /\ exibir(ss.recomendacao).confirmar
  /\ ss.resposta_especifica # <<>>
  /\ ss' = [ss EXCEPT !.resposta_especifica = <<>>, !.pergunta_especifica = <<>>]
  /\ tela' = exibir(ss.recomendacao)
  /\ UNCHANGED <<script, pc, db, llm, loc, chamadas, resultado>>
  /\ NaoMexeNoExperimento

Next ==
  \/ Carregar
  \/ \E q \in Utterances : Submeter(q, FALSE)
  \/ Extrair(FALSE)
  \/ Expandir(FALSE)
  \/ Buscar(FALSE)
  \/ Gerar(FALSE)
  \/ Confirmar
  \/ Rerun
  \/ \E q \in Utterances : SubmeterCopia(q)
  \/ BuscaAmpla
  \/ Filtrar
  \/ GerarCopia
  \/ ConfirmarCopia
  \/ EncaminharHumano
  \/ DiagCarregar
  \/ DiagBuscar
  \/ DiagGerar

Spec == Init /\ [][Next]_vars

\* The deterministic-stub experiment on app.py: the services answer each
\* input the way they answered it before, and the same utterance is submitted
\* up to MaxRuns times, with UI interactions in between.
InitDet == Init /\ script = APP

NextDet ==
  \/ Carregar
  \/ \E q \in Utterances : Submeter(q, TRUE)
  \/ Extrair(TRUE)
  \/ Expandir(TRUE)
  \/ Buscar(TRUE)
  \/ Gerar(TRUE)
  \/ Confirmar

SpecDet == InitDet /\ [][NextDet]_vars

\* The first "Buscar Sugestoes" of a session.
SubmeterPrimeira(q) == ss.pergunta = <<>> /\ Submeter(q, FALSE)

\* A session of app.py with its technical section: one question is submitted
\* and answered, then the user confirms, reruns and asks technical questions
\* about the listed products.
InitTec == Init /\ script = APP

NextTec ==
  \/ Carregar
  \/ \E q \in Utterances : SubmeterPrimeira(q)
  \/ Extrair(FALSE)
  \/ Expandir(FALSE)
  \/ Buscar(FALSE)
  \/ Gerar(FALSE)
  \/ Confirmar
  \/ Rerun
  \/ \E n \in 0..MaxGenLen, p \in PerguntasTecnicas : PerguntarTecnica(n, p)
  \/ BuscarFiltrada
  \/ BuscarGeral
  \/ GerarTecnica
  \/ OutraPergunta

SpecTec == InitTec /\ [][NextTec]_vars

\* ================================================================= claims
Servicos(cs) == {cs[i].svc : i \in DOMAIN cs}
Quantas(cs, svc) == Cardinality({i \in DOMAIN cs : cs[i].svc = svc})
AnaliseVazia(a) ==
  a.praga \in {None, ""} /\ a.cultura \in {None, ""} /\ a.termo_produto = FALSE

\* C1: when the extraction yields no pest, no crop and no product keyword,
\* the orchestrator returns the clarification message and the request makes no
\* index search, no query-expansion call and no final-generation call.
C1_EsclareceSemBuscar ==
  (script = APP /\ loc.tem_analise /\ AnaliseVazia(loc.analise))
    => /\ pc = "ocioso"
       /\ resultado = [tipo |-> "retorno", valor |-> MSG_ESCLARECER]
       /\ Servicos(chamadas) \cap {"busca", "expansao", "geracao"} = {}

C1_Witness ==
  /\ script = APP /\ loc.tem_analise /\ AnaliseVazia(loc.analise)
  /\ resultado.valor = MSG_ESCLARECER
  /\ chamadas = <<Chamada("extracao", loc.query, 0, SemPrompt)>>
  /\ ss.recomendacao = MSG_ESCLARECER

\* C2 as stated: when the extracted pest is a vague category word, the
\* orchestrator answers with a clarification that mentions the pest token and
\* the request makes no index search.
C2_GenericoEsclarece ==
  (script = APP /\ loc.tem_analise /\ loc.analise.praga \in TermosGenericos)
    => /\ "busca" \notin Servicos(chamadas)
       /\ pc # "busca"
       /\ resultado.tipo = "retorno"
            => \E i \in DOMAIN resultado.valor : resultado.valor[i] = loc.analise.praga

\* C2 as the code has it: a vague pest word is routed like any other pest. The
\* request goes on to query expansion and retrieval, the clarification message
\* is never the answer, and the pest token is carried verbatim in the advisory
\* note exactly when a product keyword is present and the crop is absent.
C2_GenericoSegueParaBusca ==
  (script = APP /\ loc.tem_analise /\ loc.analise.praga \in TermosGenericos)
    => /\ resultado.valor # MSG_ESCLARECER
       /\ pc = "expansao" \/ "expansao" \in Servicos(chamadas)
       /\ (loc.analise.termo_produto /\ loc.analise.cultura \in {None, ""})
            <=> (loc.aviso.tipo = "praga" /\ loc.aviso.termo = loc.analise.praga)
       /\ pc = "geracao" => loc.prompt.aviso = loc.aviso

C2_Witness ==
  /\ script = APP /\ loc.tem_analise /\ loc.analise.praga = "inseto"
  /\ "busca" \in Servicos(chamadas)
  /\ pc = "geracao"
  /\ loc.prompt.aviso = [tipo |-> "praga", termo |-> "inseto"]

\* A request that ended with every search having returned an empty sequence.
BuscasTodasVazias ==
  /\ pc \in {"ocioso", "fim"}
  /\ resultado.tipo \in {"retorno", "retorno_none"}
  /\ "busca" \in Servicos(chamadas)
  /\ ~loc.achou

\* C3 as stated: when every search of a request returns an empty sequence the
\* result is the NAO_ENCONTRADO value and the final generation is never
\* called, in the three scripts alike.
C3_VazioDevolveSentinela ==
  BuscasTodasVazias
    => /\ resultado = [tipo |-> "retorno", valor |-> <<SENTINELA>>]
       /\ "geracao" \notin Servicos(chamadas)

\* C3 as the code has it: when every search of a request returns an empty
\* sequence no generation (and no filtering) call is made; app.py and
\* app_copia_original.py return the NAO_ENCONTRADO value, while the diagnostic
\* script reports that no document was found and returns no value.
C3_VazioNaoGera ==
  BuscasTodasVazias
    => /\ Servicos(chamadas) \cap {"geracao", "filtragem"} = {}
       /\ script \in {APP, COPIA}
            => /\ resultado = [tipo |-> "retorno", valor |-> <<SENTINELA>>]
               /\ ss.recomendacao \in {<<SENTINELA>>, <<>>}
       /\ script = DIAG
            => /\ resultado = [tipo |-> "retorno_none", valor |-> <<>>]
               /\ tela.principal = "nenhum_documento"

C3_Witness ==
  /\ BuscasTodasVazias
  /\ script = APP
  /\ Quantas(chamadas, "busca") = 2
  /\ resultado.valor = <<SENTINELA>>

\* C4: when the final generation output contains the sentinel token anywhere,
\* the stored result is shown as not found: the text is not rendered as a
\* recommendation, the product list is empty and Confirm Order is not offered.
C4_SentinelaEmQualquerPosicao ==
  (/\ script \in {APP, COPIA}
   /\ pc = "ocioso"
   /\ resultado.tipo = "retorno"
   /\ "geracao" \in Servicos(chamadas)
   /\ \E i \in DOMAIN resultado.valor : resultado.valor[i] = SENTINELA
   /\ ss.recomendacao = resultado.valor)
    => /\ tela.principal = "nao_encontrado"
       /\ tela.texto = <<>>
       /\ ~tela.confirmar
       /\ script = APP => ss.produtos = <<>>
       /\ ~ENABLED Confirmar
       /\ ~ENABLED ConfirmarCopia

C4_Witness ==
  /\ script = APP /\ pc = "ocioso"
  /\ "geracao" \in Servicos(chamadas)
  /\ resultado.valor = <<LINHA_PRODUTO, SENTINELA>>
  /\ ss.recomendacao = resultado.valor
  /\ tela.principal = "nao_encontrado"

\* Position at which a passage content was first retrieved.
PrimeiraVez(chunks, conteudo) ==
  CHOOSE k \in DOMAIN chunks :
    /\ chunks[k].page_content = conteudo
    /\ \A m \in 1..(k - 1) : chunks[m].page_content # conteudo

\* C5: in the context of the final generation prompt every retrieved passage
\* content appears exactly once, and the contents are in the order in which
\* they were first retrieved.
C5_DeduplicaNaOrdem ==
  (script = APP /\ pc = "geracao")
    => LET c == loc.prompt.contexto
           t == loc.todos_chunks
       IN /\ {c[i] : i \in DOMAIN c} = {t[j].page_content : j \in DOMAIN t}
          /\ \A i, j \in DOMAIN c : i # j => c[i] # c[j]
          /\ \A i, j \in DOMAIN c :
               i < j => PrimeiraVez(t, c[i]) < PrimeiraVez(t, c[j])

C5_Witness ==
  /\ script = APP /\ pc = "geracao"
  /\ Quantas(chamadas, "busca") = 2
  /\ [i \in DOMAIN loc.todos_chunks |-> loc.todos_chunks[i].page_content]
       = <<"d2", "d1", "d2">>
  /\ loc.prompt.contexto = <<"d2", "d1">>

\* C6: with the index or the LLM not loaded, a submitted utterance ends in
\* the base-not-loaded outcome; no LLM call and no index search is made and
\* nothing is stored as a recommendation.
C6_IndisponivelFalhaRapido ==
  (script \in {APP, COPIA} /\ pc # "inicio" /\ (db = None \/ llm = None))
    => /\ pc = "ocioso"
       /\ chamadas = <<>>
       /\ resultado.tipo \in {"nenhum", "indisponivel"}
       /\ ss.recomendacao = <<>>
       /\ loc.query # <<>>
            => resultado.tipo = "indisponivel"

C6_Witness ==
  /\ script = APP /\ db = None /\ llm = None
  /\ loc.query = <<"u">>
  /\ resultado.tipo = "indisponivel"
  /\ tela.erro = "base_nao_carregada"
  /\ chamadas = <<>>

\* C7: when the extraction call returns no tool invocation, the same request
\* goes on to query expansion with the raw utterance and no extracted fields;
\* the extraction call is issued once and the fallback itself is no error.
C7_FallbackSemFerramenta ==
  (script = APP /\ loc.sem_ferramenta)
    => /\ Quantas(chamadas, "extracao") = 1
       /\ chamadas[1] = Chamada("extracao", ss.pergunta, 0, SemPrompt)
       /\ ~loc.tem_analise /\ loc.analise = SemArgs
       /\ \/ pc = "expansao" /\ Len(chamadas) = 1 /\ resultado.tipo = "nenhum"
          \/ /\ Len(chamadas) >= 2
             /\ chamadas[2] = Chamada("expansao", ss.pergunta, 0, SemPrompt)
       /\ resultado.valor # MSG_ESCLARECER
       /\ pc = "geracao" => loc.prompt.pergunta = ss.pergunta

C7_Witness ==
  /\ script = APP /\ loc.sem_ferramenta
  /\ pc = "ocioso" /\ resultado.tipo = "retorno"
  /\ "geracao" \in Servicos(chamadas)
  /\ resultado.valor = <<LINHA_PRODUTO>>

\* C8: with deterministic stub services, any two requests with the same
\* utterance end the same way, with the same result and the same sequence of
\* service calls, whatever the session held when they were submitted.
C8_Determinismo ==
  \A i, j \in DOMAIN hist :
    hist[i].query = hist[j].query
      => /\ hist[i].tipo = hist[j].tipo
         /\ hist[i].valor = hist[j].valor
         /\ hist[i].chamadas = hist[j].chamadas

C8_Witness ==
  /\ Len(hist) = 2
  /\ hist[1].tipo = "retorno"
  /\ "geracao" \in Servicos(hist[2].chamadas)
  /\ hist[1].valor = <<LINHA_PRODUTO>>
  /\ ss.recomendacao = <<LINHA_PRODUTO>>

\* The query-expansion response has no usable query: no non-empty line.
SemConsultaUtil(resposta) ==
  \A i \in DOMAIN split(resposta) : split(resposta)[i] = <<>>

\* C9: when the query-expansion call raises or yields no usable query, the
\* request does not fail and the original utterance is the sole search query.
C9_ExpansaoFalhaUsaPergunta ==
  script = APP
    => /\ ~(/\ resultado.tipo = "excecao"
            /\ chamadas # <<>>
            /\ chamadas[Len(chamadas)].svc = "expansao")
       /\ (loc.expandiu /\ SemConsultaUtil(loc.resposta))
            => loc.consultas = <<loc.query>>

\* C10: the search queries of a request are exactly the non-empty lines of
\* the query-expansion response, each searched once with k = 4, and no search
\* is issued with an empty query.
C10_SoLinhasNaoVazias ==
  script = APP
    => /\ loc.expandiu
            => loc.consultas = SelectSeq(split(loc.resposta), LAMBDA l : l # <<>>)
       /\ \A i \in DOMAIN chamadas :
            chamadas[i].svc = "busca"
              => chamadas[i].texto # <<>> /\ chamadas[i].k = K_TRANSFORMACAO

\* The advisory note of every final-generation prompt of the request: the one
\* being built and the ones already sent.
AvisosEmbutidos ==
  (IF pc = "geracao" THEN {loc.prompt.aviso} ELSE {})
    \cup {chamadas[i].prompt.aviso : i \in {j \in DOMAIN chamadas : chamadas[j].svc = "geracao"}}

\* C11 as stated: after a successful extraction in which the crop or the pest
\* is absent, the final generation prompt carries an advisory note; when both
\* are present it carries none.
C11_AvisoSempreQueFaltaAlgo ==
  (script = APP /\ loc.tem_analise)
    => \A av \in AvisosEmbutidos :
         (loc.analise.cultura \in {None, ""} \/ loc.analise.praga \in {None, ""})
           <=> av.tipo \in {"praga", "cultura", "geral"}

\* C11 as the code has it: after a successful extraction the final generation
\* prompt carries an advisory note exactly when a product keyword was found
\* and the crop or the pest is absent (the pest note when only the crop is
\* absent, the crop note when only the pest is absent, the general note when
\* both are); without a product keyword, or with both crop and pest present,
\* it carries none.
C11_AvisoSoComTermoProduto ==
  (script = APP /\ loc.tem_analise)
    => \A av \in AvisosEmbutidos :
         LET a == loc.analise
             semCultura == a.cultura \in {None, ""}
             semPraga == a.praga \in {None, ""}
         IN /\ (a.termo_produto /\ (semCultura \/ semPraga))
                  <=> av.tipo \in {"praga", "cultura", "geral"}
            /\ ~(a.termo_produto /\ (semCultura \/ semPraga))
                  => av = [tipo |-> "nenhum", termo |-> None]
            /\ av.tipo = "praga" => semCultura /\ ~semPraga /\ av.termo = a.praga
            /\ av.tipo = "cultura" => semPraga /\ ~semCultura /\ av.termo = a.cultura
            /\ av.tipo = "geral" => semPraga /\ semCultura

C11_Witness ==
  /\ script = APP /\ loc.tem_analise /\ pc = "ocioso"
  /\ loc.analise = [cultura |-> "soja", praga |-> None, termo_produto |-> TRUE]
  /\ chamadas # <<>>
  /\ chamadas[Len(chamadas)].svc = "geracao"
  /\ chamadas[Len(chamadas)].prompt.aviso = [tipo |-> "cultura", termo |-> "soja"]

\* Position of a service in the chain of app.py.
Ordem(svc) ==
  CASE svc = "extracao" -> 1
    [] svc = "expansao" -> 2
    [] svc = "busca" -> 3
    [] svc = "geracao" -> 4
    [] OTHER -> 0

ChamadasLLM ==
  {i \in DOMAIN chamadas : chamadas[i].svc \in {"extracao", "expansao", "filtragem", "geracao"}}

RespostaTecnicaPronta == pc = "ocioso" /\ resultado.tipo = "retorno_tecnico"

BuscasTecnicas ==
  {i \in DOMAIN chamadas : chamadas[i].svc \in {"busca_filtrada", "busca"}}

\* C13 as stated: a technical follow-up issues exactly one index search,
\* restricted to the source label of the selected product, and exactly one LLM
\* call.
C13_UmaBuscaUmaGeracao ==
  RespostaTecnicaPronta
    => /\ Cardinality(BuscasTecnicas) = 1
       /\ \A i \in BuscasTecnicas : chamadas[i].svc = "busca_filtrada"
       /\ Cardinality({i \in DOMAIN chamadas : chamadas[i].svc = "geracao_tecnica"}) = 1

\* C13 as the code has it: a technical follow-up issues one search restricted
\* to the source label of the selected product and, only when that search
\* returns no passage, a second search of the same query without restriction;
\* then exactly one LLM call. So one or two index searches are issued, and one
\* LLM call.
C13_FiltradaDepoisGeral ==
  /\ pc \in {"busca_geral", "geracao_tecnica"} \/ RespostaTecnicaPronta
       => /\ chamadas[1] = Chamada("busca_filtrada", loc.query, K_TECNICA, SemPrompt)
          /\ loc.query[1] = ss.produto_selecionado
          /\ \A i \in DOMAIN chamadas : i > 1 => chamadas[i].svc # "busca_filtrada"
  /\ pc \in {"busca_filtrada", "busca_geral", "geracao_tecnica"}
       => loc.query = <<ss.produto_selecionado>> \o ss.pergunta_especifica
  /\ pc = "busca_geral" => Len(chamadas) = 1 /\ loc.todos_chunks = <<>>
  /\ pc = "geracao_tecnica"
       => /\ Len(chamadas) = 1
               => /\ loc.todos_chunks # <<>>
                  /\ \A i \in DOMAIN loc.todos_chunks :
                       loc.todos_chunks[i].source = ss.produto_selecionado
          /\ Len(chamadas) = 2
               => chamadas[2] = Chamada("busca", chamadas[1].texto, K_TECNICA, SemPrompt)
          /\ Len(chamadas) \in {1, 2}
  /\ RespostaTecnicaPronta
       => /\ Cardinality(BuscasTecnicas) \in {1, 2}
          /\ Cardinality({i \in DOMAIN chamadas : chamadas[i].svc = "geracao_tecnica"}) = 1
          /\ Len(chamadas) = Cardinality(BuscasTecnicas) + 1
          /\ chamadas[Len(chamadas)].svc = "geracao_tecnica"
          /\ ss.resposta_especifica \in {resultado.valor, <<>>}

C13_Witness ==
  /\ RespostaTecnicaPronta
  /\ [i \in DOMAIN chamadas |-> chamadas[i].svc]
       = <<"busca_filtrada", "busca", "geracao_tecnica">>
  /\ ss.produto_selecionado = "GLYPHOTAL TR"
  /\ ss.resposta_especifica = <<"resposta tecnica">>

\* C14: no failure message shown to the user contains raw exception text: the
\* message of a failed load and of a failed confirmation email is a fixed
\* text, whatever the exception said.
C14_MensagemSemExcecao ==
  script \in {APP, COPIA}
    => /\ \A i \in DOMAIN tela.mensagem :
            tela.mensagem[i] \notin {"[Errno 13] Permission denied",
                                     "(535, b'5.7.8 BadCredentials')"}
       /\ tela.erro = "erro_ao_carregar" => Len(tela.mensagem) = 1
       /\ tela.email = "erro" => Len(tela.mensagem) = 1

\* C15: in the re-ranking pipeline, when the filtering call leaves no passage
\* the result is the NAO_ENCONTRADO value, and the final generation is never
\* called with an empty context.
C15_FiltroVazioNaoGera ==
  script = COPIA
    => /\ pc = "geracao" => loc.prompt.contexto # <<>>
       /\ \A i \in DOMAIN chamadas :
            chamadas[i].svc = "geracao" => chamadas[i].prompt.contexto # <<>>
       /\ (/\ \E i \in DOMAIN chamadas : chamadas[i].svc = "filtragem"
           /\ resultado.tipo = "retorno"
           /\ loc.prompt.contexto = <<>>)
            => resultado.valor = <<SENTINELA>>

\* C16: whatever the sequence of interactions, the confirmation email is sent
\* only with a text written by the final generation call that does not
\* contain the sentinel: never with the router's clarification message and
\* never with a not-found result.
C16_EmailSoComRecomendacao ==
  (script = APP /\ tela.email # "nenhum")
    => /\ tela.email_recomendacao # MSG_ESCLARECER
       /\ \A i \in DOMAIN tela.email_recomendacao :
            tela.email_recomendacao[i] # SENTINELA
       /\ \E r \in RespGeracao : r.ok /\ r.texto = tela.email_recomendacao

\* C17: a recommendation triggers the confirm-order notification at most
\* once. Confirm Order leaves the stored recommendation empty whether the
\* email was sent or failed, Confirm Order cannot be pressed while it is
\* empty, and it becomes non-empty again only when a submitted question is
\* answered.
C17_ConfirmaUmaVez ==
  /\ [](script \in {APP, COPIA}
          => /\ tela.email # "nenhum"
                  => /\ ss.recomendacao = <<>>
                     /\ ~ENABLED Confirmar
                     /\ ~ENABLED ConfirmarCopia
             /\ ss.recomendacao = <<>>
                  => ~ENABLED Confirmar /\ ~ENABLED ConfirmarCopia)
  /\ [][(ss.recomendacao = <<>> /\ ss'.recomendacao # <<>>)
          => /\ pc # "ocioso" /\ pc' = "ocioso"
             /\ resultado'.tipo = "retorno"
             /\ ss'.recomendacao = resultado'.valor
             /\ ss'.pergunta = loc'.query]_vars

C17_Witness ==
  /\ script = APP /\ pc = "ocioso"
  /\ tela.email = "erro"
  /\ tela.email_recomendacao = <<LINHA_PRODUTO>>
  /\ ss.recomendacao = <<>>
  /\ ss.produtos = <<"GLYPHOTAL TR">>

====
